---- MODULE Spec2Model ----
(***************************************************************************)
(* Model of the Worker of llm-chat-app-template (src/src/index.ts): the    *)
(* router `fetch`, the chat handler `handleChatRequest`, and the two       *)
(* collaborators env.ASSETS and env.AI as nondeterministic environments.   *)
(* Every request is a process r \in Reqs whose position is pc[r]; the      *)
(* steps are cut at the handler's phases (route, parse, normalize,         *)
(* dispatch, relay).                                                      *)
(***************************************************************************)
EXTENDS Integers, Sequences, FiniteSets, TLC

\* ------------------------------------------------------------------ bounds
\* Number of request slots (requests whose lifetimes can overlap).
NReq == 2
\* Longest messages array drawn for a request body under Spec.
MaxLen == 2
\* Longest messages array drawn for a request body under ConcSpec.
ConcMaxLen == 1

Reqs == 1..NReq

\* --------------------------------------------------------------- constants
\* The model identifier of src/src/index.ts; the other revision of the file
\* differs only in this identifier and in the text of the template.
MODEL_ID == "@cf/google/gemma-3-12b-it"

\* The instruction template (a multi-line literal in the source), abbreviated.
SYSTEM_PROMPT == "<essay-grading instruction template with {essay} placeholder>"

MAX_TOKENS == 1024

\* ------------------------------------------------------------- JSON values
\* A JavaScript value obtained from JSON.parse, tagged by its type.
JNull == [t |-> "null"]
JUndefined == [t |-> "undefined"]
JNum(n) == [t |-> "number", v |-> n]
JStr(s) == [t |-> "string", v |-> s]
JBool(b) == [t |-> "boolean", v |-> b]
JArr(s) == [t |-> "array", v |-> s]
JObj(f) == [t |-> "object", v |-> f]

\* A ChatMessage object literal { role, content }.
ChatMessage(role, content) == JObj([role |-> JStr(role), content |-> JStr(content)])

\* Result of an evaluation that may throw.
Ok(v) == [ok |-> TRUE, val |-> v, err |-> ""]
Throw(e) == [ok |-> FALSE, val |-> JUndefined, err |-> e]

\* A request body whose text is not JSON.
InvalidJson == [t |-> "invalid"]

\* --------------------------------------------------------------- responses
NoResponse == [status |-> 0, contentType |-> "", body |-> ""]

\* new Response(text, { status }): a string body gets the text/plain type.
TextResponse(text, status) ==
    [status |-> status, contentType |-> "text/plain;charset=UTF-8", body |-> text]

\* JSON.stringify of an object with one string-valued key.
JSONStringify(key, val) == "{\"" \o key \o "\":\"" \o val \o "\"}"

MethodNotAllowedResponse == TextResponse("Method not allowed", 405)

NotFoundResponse == TextResponse("Not found", 404)

\* ------------------------------------------------------------------- paths
\* url.pathname as a sequence of characters.
PathRoot == <<"/">>
PathStatic == <<"/", "a">>
PathApiBare == <<"/", "a", "p", "i">>
PathApiSlash == <<"/", "a", "p", "i", "/">>
PathApix == <<"/", "a", "p", "i", "x">>
PathChat == <<"/", "a", "p", "i", "/", "c", "h", "a", "t">>
PathChatSlash == <<"/", "a", "p", "i", "/", "c", "h", "a", "t", "/">>
PathUnknown == <<"/", "a", "p", "i", "/", "x">>

Paths == {PathRoot, PathStatic, PathApiBare, PathApiSlash, PathApix,
          PathChat, PathChatSlash, PathUnknown}

Methods == {"GET", "POST", "PUT"}

\* String.prototype.startsWith
StartsWith(s, p) == Len(s) >= Len(p) /\ SubSeq(s, 1, Len(p)) = p

\* ------------------------------------------------------------ input alphabet
\* Elements a messages array is drawn from: well-formed messages of every
\* role, and elements that are not ChatMessage records.
Elems == {ChatMessage("user", "Hi"), ChatMessage("assistant", "Ok"),
          ChatMessage("system", "X"), ChatMessage("system", SYSTEM_PROMPT),
          JNull, JStr("Hi"), JObj([content |-> JStr("Hi")])}

ConcElems == {ChatMessage("user", "Hi"), ChatMessage("system", "X")}

Arrays(E, n) == UNION {[1..k -> E] : k \in 0..n}

\* A JSON object without a messages field.
BodyNoMessages == JObj([other |-> JNum(1)])

BodyWith(m) == JObj([messages |-> m])

\* Values of the messages field that are not arrays.
NonArrayValues == {JNull, JNum(5), JStr("hello"), JBool(TRUE),
                   JObj([some |-> JBool(TRUE)])}

\* Valid JSON texts whose value is not an object.
NonObjectBodies == {JNull, JNum(42), JStr("hi"), JBool(FALSE), JArr(<<>>),
                    JArr(<<ChatMessage("user", "Hi")>>)}

Bodies == {InvalidJson, BodyNoMessages} \cup NonObjectBodies
          \cup {BodyWith(m) : m \in NonArrayValues}
          \cup {BodyWith(JArr(a)) : a \in Arrays(Elems, MaxLen)}

ConcBodies == {InvalidJson, BodyNoMessages, BodyWith(JNull)}
              \cup {BodyWith(JArr(a)) : a \in Arrays(ConcElems, ConcMaxLen)}

ConcPaths == {PathRoot, PathChat, PathUnknown}

ConcMethods == {"GET", "POST"}

\* What env.AI.run may answer: a response of any status, or a failure.
AIAnswers == {Ok([status |-> 200, contentType |-> "text/event-stream", body |-> "data: chunk"]),
              Ok([status |-> 429, contentType |-> "application/json", body |-> "{\"error\":\"quota\"}"]),
              Throw("InferenceUpstreamError")}

\* What env.ASSETS.fetch may answer.
AssetAnswers == {Ok([status |-> 200, contentType |-> "text/html", body |-> "<html>"]),
                 Ok([status |-> 404, contentType |-> "text/plain", body |-> "no such asset"]),
                 Throw("AssetError")}

\* ---------------------------------------------------------------- router
ApiPrefix == PathApiSlash

IsAssetPathNoSlash(p) == p = PathRoot \/ ~StartsWith(p, PathApiBare)

\* url.pathname === "/" || !url.pathname.startsWith("/api/")
IsAssetPath(p) == p = PathRoot \/ ~StartsWith(p, ApiPrefix)

IsChatPathPrefix(p) == StartsWith(p, PathChat)

\* url.pathname === "/api/chat"
IsChatPath(p) == p = PathChat

IsPostOrPut(m) == m \in {"POST", "PUT"}

\* request.method === "POST"
IsPost(m) == m = "POST"

\* ----------------------------------------------------------- chat handler
\* await request.json(): the parsed value, or a SyntaxError.
RequestJson(b) == IF b = InvalidJson THEN Throw("SyntaxError") ELSE Ok(b)

\* Property read v[k] on a value that is neither null nor undefined; the only
\* keys read are own properties of parsed objects.
GetProp(v, k) == IF v.t = "object" /\ k \in DOMAIN v.v THEN v.v[k] ELSE JUndefined

DestructureNoDefault(b) ==
    IF b.t \in {"null", "undefined"} THEN Throw("TypeError")
    ELSE Ok(GetProp(b, "messages"))

\* const { messages = [] } = <parsed body>: destructuring null throws; the
\* default applies only when the property is undefined.
DestructureMessages(b) ==
    IF b.t \in {"null", "undefined"} THEN Throw("TypeError")
    ELSE LET m == GetProp(b, "messages")
         IN Ok(IF m.t = "undefined" THEN JArr(<<>>) ELSE m)

\* Array.prototype.some over s from index i with (msg) => msg.role === "system":
\* stops at the first hit; reading .role of a null element throws.
RECURSIVE SomeFrom(_, _)
SomeFrom(s, i) ==
    IF i > Len(s) THEN Ok(FALSE)
    ELSE IF s[i].t \in {"null", "undefined"} THEN Throw("TypeError")
    ELSE IF GetProp(s[i], "role") = JStr("system") THEN Ok(TRUE)
    ELSE SomeFrom(s, i + 1)

FirstHasSystemRole(m) ==
    IF m.t # "array" THEN Throw("TypeError")
    ELSE IF m.v = <<>> THEN Ok(FALSE)
    ELSE SomeFrom(<<m.v[1]>>, 1)

\* messages.some((msg) => msg.role === "system"): a value that is not an
\* array has no callable `some`, and the call throws.
HasSystemRole(m) ==
    IF m.t # "array" THEN Throw("TypeError")
    ELSE SomeFrom(m.v, 1)

SystemMessage == ChatMessage("system", SYSTEM_PROMPT)

Push(m, e) == JArr(Append(m.v, e))

\* messages.unshift(e)
Unshift(m, e) == JArr(<<e>> \o m.v)

\* The arguments of env.AI.run(MODEL_ID, { messages, max_tokens }, { returnRawResponse }).
AIRunArgs(m) ==
    [model |-> MODEL_ID, messages |-> m, max_tokens |-> MAX_TOKENS,
     returnRawResponse |-> TRUE]

RelayRewrapped(resp) == [resp EXCEPT !.status = 200]

\* return response;
Relay(resp) == resp

CatchResponseLeaky(err) ==
    [status |-> 500, contentType |-> "application/json",
     body |-> JSONStringify("error", err)]

\* The catch block's response; the caught error is only logged.
CatchResponse(err) ==
    [status |-> 500, contentType |-> "application/json",
     body |-> JSONStringify("error", "Failed to process request")]

\* ------------------------------------------------------------------ state
VARIABLES
    pc,          \* pc[r]: the position of request r
    hist,        \* hist[r]: the positions request r has been in, in order
    method,      \* request.method
    path,        \* new URL(request.url).pathname
    body,        \* the request body, once request.json() has read it
    messages,    \* the handler's binding `messages`
    assetCalls,  \* requests handed to env.ASSETS.fetch on behalf of r
    assetReply,  \* what env.ASSETS.fetch answered
    aiCalls,     \* argument lists of the env.AI.run calls made for r
    aiReply,     \* what env.AI.run answered
    errlog,      \* the error console.error recorded for r
    response     \* the response fetch resolved with

vars == <<pc, hist, method, path, body, messages, assetCalls, assetReply,
          aiCalls, aiReply, errlog, response>>

Unread == [t |-> "unread"]
Unbound == [t |-> "unbound"]
NoReply == [ok |-> FALSE, val |-> JUndefined, err |-> "pending"]

\* Positions in which the request has been answered (or fetch has rejected).
Terminal == {"Done", "Rejected", "Streaming", "Failed"}

Init ==
    /\ pc = [r \in Reqs |-> "Idle"]
    /\ hist = [r \in Reqs |-> <<>>]
    /\ method = [r \in Reqs |-> ""]
    /\ path = [r \in Reqs |-> <<>>]
    /\ body = [r \in Reqs |-> Unread]
    /\ messages = [r \in Reqs |-> Unbound]
    /\ assetCalls = [r \in Reqs |-> <<>>]
    /\ assetReply = [r \in Reqs |-> NoReply]
    /\ aiCalls = [r \in Reqs |-> <<>>]
    /\ aiReply = [r \in Reqs |-> NoReply]
    /\ errlog = [r \in Reqs |-> ""]
    /\ response = [r \in Reqs |-> NoResponse]

\* Move request r to position p.
Goto(r, p) ==
    /\ pc' = [pc EXCEPT ![r] = p]
    /\ hist' = [hist EXCEPT ![r] = Append(@, p)]

BindShared(r, m) == [q \in Reqs |-> m]

\* `messages` is a const binding local to one call of handleChatRequest.
BindLocal(r, m) == [messages EXCEPT ![r] = m]

\* The runtime calls fetch(request, env, ctx) with a request drawn from M x P.
Fetch(r, M, P) ==
    /\ pc[r] = "Idle"
    /\ \E m \in M, p \in P :
        /\ method' = [method EXCEPT ![r] = m]
        /\ path' = [path EXCEPT ![r] = p]
    /\ Goto(r, "Received")
    /\ UNCHANGED <<body, messages, assetCalls, assetReply, aiCalls, aiReply,
                   errlog, response>>

\* The body of fetch: the three routes.
Route(r) ==
    /\ pc[r] = "Received"
    /\ IF IsAssetPath(path[r])
       THEN /\ assetCalls' = [assetCalls EXCEPT
                   ![r] = Append(@, [id |-> r, method |-> method[r], path |-> path[r]])]
            /\ Goto(r, "Assets")
            /\ UNCHANGED response
       ELSE IF IsChatPath(path[r])
       THEN IF IsPost(method[r])
            THEN Goto(r, "Parsing") /\ UNCHANGED <<assetCalls, response>>
            ELSE /\ response' = [response EXCEPT ![r] = MethodNotAllowedResponse]
                 /\ Goto(r, "Done")
                 /\ UNCHANGED assetCalls
       ELSE /\ response' = [response EXCEPT ![r] = NotFoundResponse]
            /\ Goto(r, "Done")
            /\ UNCHANGED assetCalls
    /\ UNCHANGED <<method, path, body, messages, assetReply, aiCalls, aiReply, errlog>>

\* env.ASSETS.fetch(request) settles; fetch returned its promise.
AssetsReturn(r) ==
    /\ pc[r] = "Assets"
    /\ \E a \in AssetAnswers :
        /\ assetReply' = [assetReply EXCEPT ![r] = a]
        /\ IF a.ok
           THEN response' = [response EXCEPT ![r] = a.val] /\ Goto(r, "Done")
           ELSE UNCHANGED response /\ Goto(r, "Rejected")
    /\ UNCHANGED <<method, path, body, messages, assetCalls, aiCalls, aiReply, errlog>>

\* catch (error) { console.error(...); return new Response(...500...) }
Catch(r, err) ==
    /\ errlog' = [errlog EXCEPT ![r] = err]
    /\ response' = [response EXCEPT ![r] = CatchResponse(err)]
    /\ Goto(r, "Failed")

\* await request.json() with a body drawn from B, and the destructuring.
ParseBody(r, B) ==
    /\ pc[r] = "Parsing"
    /\ \E b \in B :
        /\ body' = [body EXCEPT ![r] = b]
        /\ LET parsed == RequestJson(b)
               d == IF parsed.ok THEN DestructureMessages(parsed.val) ELSE parsed
           IN IF d.ok
              THEN /\ messages' = BindLocal(r, d.val)
                   /\ Goto(r, "Normalizing")
                   /\ UNCHANGED <<errlog, response>>
              ELSE Catch(r, d.err) /\ UNCHANGED messages
    /\ UNCHANGED <<method, path, assetCalls, assetReply, aiCalls, aiReply>>

\* if (!messages.some(...)) messages.unshift({ role: "system", content: SYSTEM_PROMPT })
Normalize(r) ==
    /\ pc[r] = "Normalizing"
    /\ LET s == HasSystemRole(messages[r])
       IN IF s.ok
          THEN /\ messages' = IF s.val THEN messages
                              ELSE BindLocal(r, Unshift(messages[r], SystemMessage))
               /\ Goto(r, "Dispatching")
               /\ UNCHANGED <<errlog, response>>
          ELSE Catch(r, s.err) /\ UNCHANGED messages
    /\ UNCHANGED <<method, path, body, assetCalls, assetReply, aiCalls, aiReply>>

\* env.AI.run(...) is called.
Dispatch(r) ==
    /\ pc[r] = "Dispatching"
    /\ aiCalls[r] = <<>>
    /\ aiCalls' = [aiCalls EXCEPT ![r] = Append(@, AIRunArgs(messages[r]))]
    /\ UNCHANGED <<pc, hist, method, path, body, messages, assetCalls, assetReply,
                   aiReply, errlog, response>>

\* The awaited env.AI.run settles: its response is returned, its failure caught.
AIReturn(r) ==
    /\ pc[r] = "Dispatching"
    /\ aiCalls[r] # <<>>
    /\ \E a \in AIAnswers :
        /\ aiReply' = [aiReply EXCEPT ![r] = a]
        /\ IF a.ok
           THEN /\ response' = [response EXCEPT ![r] = Relay(a.val)]
                /\ Goto(r, "Streaming")
                /\ UNCHANGED errlog
           ELSE Catch(r, a.err)
    /\ UNCHANGED <<method, path, body, messages, assetCalls, assetReply, aiCalls>>

\* The request's lifetime ends; nothing of it is retained.
Release(r) ==
    /\ pc[r] \in Terminal
    /\ pc' = [pc EXCEPT ![r] = "Idle"]
    /\ hist' = [hist EXCEPT ![r] = <<>>]
    /\ method' = [method EXCEPT ![r] = ""]
    /\ path' = [path EXCEPT ![r] = <<>>]
    /\ body' = [body EXCEPT ![r] = Unread]
    /\ messages' = [messages EXCEPT ![r] = Unbound]
    /\ assetCalls' = [assetCalls EXCEPT ![r] = <<>>]
    /\ assetReply' = [assetReply EXCEPT ![r] = NoReply]
    /\ aiCalls' = [aiCalls EXCEPT ![r] = <<>>]
    /\ aiReply' = [aiReply EXCEPT ![r] = NoReply]
    /\ errlog' = [errlog EXCEPT ![r] = ""]
    /\ response' = [response EXCEPT ![r] = NoResponse]

\* No request is being handled.
Quiet == \A q \in Reqs : pc[q] = "Idle"

\* Requests served one after another, over the full input alphabet.
Next ==
    \E r \in Reqs :
        \/ Quiet /\ Fetch(r, Methods, Paths)
        \/ Route(r)
        \/ AssetsReturn(r)
        \/ ParseBody(r, Bodies)
        \/ Normalize(r)
        \/ Dispatch(r)
        \/ AIReturn(r)
        \/ Release(r)

Spec == Init /\ [][Next]_vars

\* Requests handled concurrently, interleaved at every step.
ConcNext ==
    \E r \in Reqs :
        \/ Fetch(r, ConcMethods, ConcPaths)
        \/ Route(r)
        \/ AssetsReturn(r)
        \/ ParseBody(r, ConcBodies)
        \/ Normalize(r)
        \/ Dispatch(r)
        \/ AIReturn(r)
        \/ Release(r)

ConcSpec == Init /\ [][ConcNext]_vars

\* ------------------------------------------------------------ vocabulary
\* The request r has arrived and is a POST to /api/chat.
ChatPost(r) == pc[r] # "Idle" /\ path[r] = PathChat /\ method[r] = "POST"

\* The uniform error response, as the interface documents it.
UniformError ==
    [status |-> 500, contentType |-> "application/json",
     body |-> "{\"error\":\"Failed to process request\"}"]

\* The body read for r is a JSON object.
ObjectBody(r) == body[r].t = "object"

\* The body read for r is a JSON object whose messages field is an array.
ArrayInput(r) ==
    /\ ObjectBody(r)
    /\ "messages" \in DOMAIN body[r].v
    /\ body[r].v.messages.t = "array"

\* The elements of that array.
Input(r) == body[r].v.messages.v

\* e is a record whose role is "system".
IsSystemElem(e) == e.t = "object" /\ "role" \in DOMAIN e.v /\ e.v.role = JStr("system")

InputHasSystem(r) == \E i \in 1..Len(Input(r)) : IsSystemElem(Input(r)[i])

InputHasNull(r) == \E i \in 1..Len(Input(r)) : Input(r)[i] = JNull

\* The messages of the one env.AI.run call made for r.
Dispatched(r) == aiCalls[r][1].messages

InjectedMessage ==
    [t |-> "object",
     v |-> [role |-> [t |-> "string", v |-> "system"],
            content |-> [t |-> "string", v |-> SYSTEM_PROMPT]]]

\* ------------------------------------------------------------------ claims

\* C1: a request of any method whose path is "/" or does not begin with
\* "/api/" is handed, as the same request, to the Asset Collaborator, and the
\* router's response is exactly the collaborator's; the body is never read,
\* the chat handler never entered and the Inference Collaborator never called.
C1_AssetPassThrough ==
    \A r \in Reqs :
        (pc[r] # "Idle"
         /\ (path[r] = <<"/">> \/ ~StartsWith(path[r], <<"/", "a", "p", "i", "/">>)))
        => /\ pc[r] \in {"Received", "Assets", "Done", "Rejected"}
           /\ aiCalls[r] = <<>>
           /\ body[r] = Unread
           /\ messages[r] = Unbound
           /\ errlog[r] = ""
           /\ (pc[r] # "Received"
               => assetCalls[r] = <<[id |-> r, method |-> method[r], path |-> path[r]]>>)
           /\ (pc[r] = "Done" => assetReply[r].ok /\ response[r] = assetReply[r].val)
           /\ (pc[r] = "Rejected" => ~assetReply[r].ok /\ response[r] = NoResponse)

\* A POST to "/apix", which only shares "/api" with the prefix, answered with
\* the collaborator's 404.
C1_Witness ==
    \E r \in Reqs :
        /\ method[r] = "POST" /\ path[r] = PathApix /\ pc[r] = "Done"
        /\ response[r].status = 404 /\ response[r].body = "no such asset"

\* C2: a request to "/api/chat" whose method is not POST gets status 405 with
\* the plain-text body "Method not allowed"; its body is not read and the
\* Inference Collaborator is not called.
C2_MethodNotAllowed ==
    \A r \in Reqs :
        (pc[r] # "Idle" /\ path[r] = PathChat /\ method[r] # "POST")
        => /\ pc[r] \in {"Received", "Done"}
           /\ body[r] = Unread
           /\ aiCalls[r] = <<>>
           /\ assetCalls[r] = <<>>
           /\ (pc[r] = "Done"
               => /\ response[r].status = 405
                  /\ response[r].body = "Method not allowed"
                  /\ response[r].contentType = "text/plain;charset=UTF-8")

C2_Witness ==
    \E r \in Reqs :
        /\ method[r] = "PUT" /\ path[r] = PathChat /\ pc[r] = "Done"
        /\ response[r].status = 405

\* C3: a request of any method whose path begins with "/api/" and is not
\* "/api/chat" gets status 404 with the plain-text body "Not found", and never
\* goes through the chat handler or its error path.
C3_NotFound ==
    \A r \in Reqs :
        (pc[r] # "Idle"
         /\ StartsWith(path[r], <<"/", "a", "p", "i", "/">>)
         /\ path[r] # <<"/", "a", "p", "i", "/", "c", "h", "a", "t">>)
        => /\ pc[r] \in {"Received", "Done"}
           /\ body[r] = Unread
           /\ aiCalls[r] = <<>>
           /\ assetCalls[r] = <<>>
           /\ errlog[r] = ""
           /\ (pc[r] = "Done"
               => /\ response[r].status = 404
                  /\ response[r].body = "Not found"
                  /\ response[r].contentType = "text/plain;charset=UTF-8")

C3_Witness ==
    \E r \in Reqs :
        /\ method[r] = "POST" /\ path[r] = PathChatSlash /\ pc[r] = "Done"
        /\ response[r].status = 404

\* C4: when the messages array of a POST /api/chat body holds no element of
\* role "system" (the empty array included), the sequence passed to the
\* Inference Collaborator is one longer than the input, starts with
\* {role: system, content: the template}, and continues with the input
\* elements in their order; and such a request, unless an element is null,
\* reaches the call.
C4_InjectWhenNoSystem ==
    \A r \in Reqs :
        (ChatPost(r) /\ ArrayInput(r) /\ ~InputHasSystem(r))
        => /\ (aiCalls[r] # <<>>
               => /\ Dispatched(r).t = "array"
                  /\ Len(Dispatched(r).v) = Len(Input(r)) + 1
                  /\ Dispatched(r).v[1] = InjectedMessage
                  /\ \A i \in 1..Len(Input(r)) : Dispatched(r).v[i + 1] = Input(r)[i])
           /\ (~InputHasNull(r) /\ pc[r] \in Terminal => aiCalls[r] # <<>>)

C4_Witness ==
    \E r \in Reqs :
        /\ ChatPost(r) /\ ArrayInput(r)
        /\ Input(r) = <<ChatMessage("user", "Hi"), ChatMessage("assistant", "Ok")>>
        /\ aiCalls[r] # <<>>
        /\ Len(Dispatched(r).v) = 3

\* C5: when the messages array of a POST /api/chat body holds an element of
\* role "system", at any index and with any content, the sequence passed to
\* the Inference Collaborator is the input sequence itself.
C5_NoInjectionWhenSystem ==
    \A r \in Reqs :
        (ChatPost(r) /\ ArrayInput(r) /\ InputHasSystem(r))
        => /\ (aiCalls[r] # <<>> => Dispatched(r) = body[r].v.messages)
           /\ (~InputHasNull(r) /\ pc[r] \in Terminal => aiCalls[r] # <<>>)

\* The system element is second, after a user message.
C5_Witness ==
    \E r \in Reqs :
        /\ ChatPost(r) /\ ArrayInput(r)
        /\ Input(r) = <<ChatMessage("user", "Hi"), ChatMessage("system", "X")>>
        /\ aiCalls[r] # <<>>
        /\ Dispatched(r).v = Input(r)

\* C6: the chat handler never throws past its boundary: a POST /api/chat is
\* never rejected, every failure of parsing, normalizing or the inference call
\* ends in Failed, and the response there is the uniform 500 JSON error,
\* whatever the cause.
C6_UniformError ==
    \A r \in Reqs :
        ChatPost(r)
        => /\ pc[r] # "Rejected"
           /\ (body[r] = InvalidJson => pc[r] = "Failed")
           /\ (aiReply[r] # NoReply /\ ~aiReply[r].ok => pc[r] = "Failed")
           /\ (errlog[r] # "" <=> pc[r] = "Failed")
           /\ (pc[r] = "Failed" => response[r] = UniformError)

\* A failure while normalizing (messages: null has no `some`).
C6_Witness ==
    \E r \in Reqs :
        /\ ChatPost(r) /\ pc[r] = "Failed"
        /\ hist[r] = <<"Received", "Parsing", "Normalizing", "Failed">>
        /\ errlog[r] = "TypeError"
        /\ response[r].status = 500

\* C7: a POST /api/chat whose body is valid JSON but not an object (array,
\* number, string, boolean, null) is an error: the uniform 500, and the
\* Inference Collaborator is not called.
C7_NonObjectBodyIsError ==
    \A r \in Reqs :
        (ChatPost(r) /\ body[r].t \in {"null", "number", "string", "boolean", "array"})
        => /\ aiCalls[r] = <<>>
           /\ (pc[r] \in Terminal => response[r] = UniformError)

ChatRuns ==
    {<<"Received", "Parsing", "Normalizing", "Dispatching", "Streaming">>,
     <<"Received", "Parsing", "Normalizing", "Dispatching", "Failed">>,
     <<"Received", "Parsing", "Normalizing", "Failed">>,
     <<"Received", "Parsing", "Failed">>}

IsPrefix(s, t) == Len(s) <= Len(t) /\ SubSeq(t, 1, Len(s)) = s

\* C9: a POST /api/chat goes Received -> Parsing -> Normalizing ->
\* Dispatching and ends in Streaming or in Failed, with nothing after either;
\* in Streaming the response is the Inference Collaborator's own, whatever
\* its status and content type; in Failed it is the uniform 500. The
\* collaborator is called at most once, with max_tokens 1024 and the
\* raw-response flag true, only from Dispatching, and every state before the
\* end has a step to take.
C9_StateMachine ==
    \A r \in Reqs :
        ChatPost(r)
        => /\ \E run \in ChatRuns : IsPrefix(hist[r], run)
           /\ pc[r] = hist[r][Len(hist[r])]
           /\ Len(aiCalls[r]) <= 1
           /\ (aiCalls[r] # <<>>
               => /\ pc[r] \in {"Dispatching", "Streaming", "Failed"}
                  /\ hist[r][Len(hist[r]) - (IF pc[r] = "Dispatching" THEN 0 ELSE 1)]
                        = "Dispatching"
                  /\ aiCalls[r][1].max_tokens = 1024
                  /\ aiCalls[r][1].returnRawResponse = TRUE
                  /\ aiCalls[r][1].model = MODEL_ID)
           /\ (aiReply[r] # NoReply => aiCalls[r] # <<>> /\ pc[r] \in {"Streaming", "Failed"})
           /\ (pc[r] = "Streaming"
               => aiReply[r].ok /\ response[r] = aiReply[r].val /\ errlog[r] = "")
           /\ (pc[r] = "Failed" => response[r] = UniformError)
           /\ (pc[r] \notin {"Streaming", "Failed"}
               => /\ response[r] = NoResponse
                  /\ ENABLED (Route(r) \/ ParseBody(r, Bodies) \/ Normalize(r)
                              \/ Dispatch(r) \/ AIReturn(r)))

\* Streaming with a collaborator response that is not a 200.
C9_Witness ==
    \E r \in Reqs :
        /\ ChatPost(r) /\ pc[r] = "Streaming"
        /\ hist[r] = <<"Received", "Parsing", "Normalizing", "Dispatching", "Streaming">>
        /\ response[r].status = 429
        /\ response[r].contentType = "application/json"

\* What a request's own body determines: the array the handler starts from,
\* and what it dispatches.
OwnInput(b) == IF "messages" \in DOMAIN b.v THEN b.v.messages ELSE JArr(<<>>)

OwnNormalized(b) ==
    IF \E i \in 1..Len(OwnInput(b).v) : IsSystemElem(OwnInput(b).v[i])
    THEN OwnInput(b)
    ELSE JArr(<<InjectedMessage>> \o OwnInput(b).v)

\* What r was given: its method, path and body and its collaborators' answers.
Given(r) == <<method[r], path[r], body[r], assetReply[r], aiReply[r]>>

\* C10: under every interleaving of concurrently handled requests, and after
\* any earlier requests, what a request's handler holds and dispatches is
\* determined by its own body, two answered requests that were given the same
\* have the same response and the same dispatch, and a slot that handles no
\* request holds nothing of an earlier one.
C10_Isolation ==
    /\ \A r \in Reqs :
        /\ (pc[r] = "Normalizing" => messages[r] = OwnInput(body[r]))
        /\ (pc[r] \in {"Dispatching", "Streaming"} => messages[r] = OwnNormalized(body[r]))
        /\ (aiCalls[r] # <<>>
            => aiCalls[r] = <<[model |-> MODEL_ID, messages |-> OwnNormalized(body[r]),
                               max_tokens |-> 1024, returnRawResponse |-> TRUE]>>)
        /\ (pc[r] \in {"Received", "Parsing", "Assets", "Done", "Rejected"}
            => messages[r] = Unbound /\ aiCalls[r] = <<>>)
        /\ (pc[r] = "Idle"
            => /\ messages[r] = Unbound /\ body[r] = Unread /\ aiCalls[r] = <<>>
               /\ response[r] = NoResponse /\ errlog[r] = "")
    /\ \A r, q \in Reqs :
        (pc[r] \in Terminal /\ pc[q] \in Terminal /\ Given(r) = Given(q))
        => /\ response[r] = response[q]
           /\ aiCalls[r] = aiCalls[q]
           /\ pc[r] = pc[q]

\* Two requests in flight together: one failed on its body, the other, with a
\* different body, got its injected system message and streams.
C10_Witness ==
    \E r, q \in Reqs :
        /\ r # q
        /\ ChatPost(r) /\ pc[r] = "Failed" /\ body[r] = BodyWith(JNull)
        /\ ChatPost(q) /\ pc[q] = "Streaming"
        /\ body[q] = BodyWith(JArr(<<ChatMessage("user", "Hi")>>))
        /\ Dispatched(q) = JArr(<<InjectedMessage, ChatMessage("user", "Hi")>>)

====
